---------------------------- MODULE Spec2Model ----------------------------
(***************************************************************************)
(* A model of csvkit/table.py: Column and Table (list subclasses), the     *)
(* structural mutations of a Table, Table.from_csv and Table.to_csv.       *)
(*                                                                         *)
(* Python objects are modelled by identity: `heap` is the sequence of all  *)
(* Column objects constructed so far (an object's id is its position in    *)
(* the heap) and `table` is the Table under study, a sequence of ids, so   *)
(* that one Column object may occur in the Table more than once.           *)
(*                                                                         *)
(* A Python string is a sequence of one-character strings, a cell value is *)
(* a record [k, n, s, t]: k the Python type of the value, n its number     *)
(* (bool, int, float mantissa), s its characters (str) and t its fields    *)
(* (float: <<decimals>>, date: <<y,m,d>>, time: <<h,m,s>>, datetime:       *)
(* <<y,m,d,h,m,s>>).                                                       *)
(***************************************************************************)
EXTENDS Integers, Sequences, FiniteSets, TLC

VARIABLES
    heap,     \* Seq of Column objects [index, name, type, data]
    table,    \* the Table: Seq of object ids, in column order
    reader,   \* the rows of the CSV file f not read yet (a row: Seq of strings)
    call,     \* the last call made: [op, col, input], input its file or arguments
    raised,   \* the exception the last call raised, "" when it returned
    written   \* the rows the last call handed to the CSV writer, in order

vars == <<heap, table, reader, call, raised, written>>

\* ------------------------------------------------------------------ bounds

\* The most Column objects constructed in one behaviour, and the most
\* columns the Table is grown to.
MaxObjs == 2

MaxCols == 3

\* ------------------------------------------------------------------ values

NoneValue == [k |-> "NoneType", n |-> 0, s |-> <<>>, t |-> <<>>]
BoolValue(b) == [k |-> "bool", n |-> b, s |-> <<>>, t |-> <<>>]
IntValue(i) == [k |-> "int", n |-> i, s |-> <<>>, t |-> <<>>]
FloatValue(m, d) == [k |-> "float", n |-> m, s |-> <<>>, t |-> <<d>>]
StrValue(chars) == [k |-> "str", n |-> 0, s |-> chars, t |-> <<>>]
DateValue(y, m, d) == [k |-> "date", n |-> 0, s |-> <<>>, t |-> <<y, m, d>>]
TimeValue(h, m, sec) == [k |-> "time", n |-> 0, s |-> <<>>, t |-> <<h, m, sec>>]
DateTimeValue(y, m, d, h, mi, sec) ==
    [k |-> "datetime", n |-> 0, s |-> <<>>, t |-> <<y, m, d, h, mi, sec>>]

Digits == <<"0", "1", "2", "3", "4", "5", "6", "7", "8", "9">>

IsDigit(c) == \E i \in 1..Len(Digits) : Digits[i] = c

DigitOf(c) == (CHOOSE i \in 1..Len(Digits) : Digits[i] = c) - 1

Pad2(n) == <<Digits[((n \div 10) % 10) + 1], Digits[(n % 10) + 1]>>

Pad4(n) == Pad2(n \div 100) \o Pad2(n % 100)

\* datetime.date.isoformat, datetime.time.isoformat and
\* datetime.datetime.isoformat of the standard library (no microseconds, no
\* time zone): YYYY-MM-DD, HH:MM:SS, YYYY-MM-DDTHH:MM:SS.
IsoDate(y, m, d) == Pad4(y) \o <<"-">> \o Pad2(m) \o <<"-">> \o Pad2(d)

IsoTime(h, m, sec) == Pad2(h) \o <<":">> \o Pad2(m) \o <<":">> \o Pad2(sec)

HasIsoformat(v) == v.k \in {"date", "time", "datetime"}

isoformat(v) ==
    CASE v.k = "date" -> StrValue(IsoDate(v.t[1], v.t[2], v.t[3]))
      [] v.k = "time" -> StrValue(IsoTime(v.t[1], v.t[2], v.t[3]))
      [] v.k = "datetime" ->
            StrValue(IsoDate(v.t[1], v.t[2], v.t[3]) \o <<"T">>
                     \o IsoTime(v.t[4], v.t[5], v.t[6]))

\* 10^d
RECURSIVE Pow10(_)
Pow10(d) == IF d = 0 THEN 1 ELSE 10 * Pow10(d - 1)

IsNumber(v) == v.k \in {"bool", "int", "float"}

\* Python's == on two cell values: numbers (bool, int, float) compare by
\* value across types, everything else by type and content.
PyEq(v, w) ==
    IF IsNumber(v) /\ IsNumber(w)
    THEN LET dv == IF v.k = "float" THEN v.t[1] ELSE 0
             dw == IF w.k = "float" THEN w.t[1] ELSE 0
         IN  v.n * Pow10(dw) = w.n * Pow10(dv)
    ELSE v.k = w.k /\ v.s = w.s /\ v.t = w.t

\* list.__eq__: same length and pairwise equal items.
ListEq(l1, l2) ==
    /\ Len(l1) = Len(l2)
    /\ \A i \in 1..Len(l1) : PyEq(l1[i], l2[i])

\* ------------------------------------------------------------------ str.strip

WhiteSpace == {" ", "\t"}

RECURSIVE lstrip(_)
lstrip(chars) ==
    IF chars # <<>> /\ Head(chars) \in WhiteSpace THEN lstrip(Tail(chars)) ELSE chars

RECURSIVE rstrip(_)
rstrip(chars) ==
    IF chars # <<>> /\ chars[Len(chars)] \in WhiteSpace
    THEN rstrip(SubSeq(chars, 1, Len(chars) - 1))
    ELSE chars

strip(chars) == rstrip(lstrip(chars))

\* ------------------------------------------------------------------ types

\* Column.type is a Python type object, None for a column of nulls only;
\* InvalidType is the class that stands for "no type supplied".
InvalidType == "InvalidType"

NullType == "None"

TemporalTypes == {"datetime", "date", "time"}

\* ------------------------------------------------------------------ type inference
\* csvkit.typeinference is imported by table.py and is not part of the
\* sources at hand: the cascade below follows its description (null marker:
\* the empty string; Boolean, Integer, Float, Date, DateTime, Time, Text in
\* that order; a candidate is taken when every non-null value parses).

LowerCase == <<"t", "r", "u", "e", "f", "a", "l", "s", "y", "n", "o">>

UpperCase == <<"T", "R", "U", "E", "F", "A", "L", "S", "Y", "N", "O">>

lower(chars) ==
    [i \in 1..Len(chars) |->
        IF \E j \in 1..Len(UpperCase) : UpperCase[j] = chars[i]
        THEN LowerCase[CHOOSE j \in 1..Len(UpperCase) : UpperCase[j] = chars[i]]
        ELSE chars[i]]

TrueTokens == {<<"t", "r", "u", "e">>, <<"y", "e", "s">>, <<"1">>, <<"t">>}

FalseTokens == {<<"f", "a", "l", "s", "e">>, <<"n", "o">>, <<"0">>, <<"f">>}

AllDigits(chars) == chars # <<>> /\ \A i \in 1..Len(chars) : IsDigit(chars[i])

RECURSIVE DigitsToInt(_)
DigitsToInt(chars) ==
    IF chars = <<>> THEN 0
    ELSE 10 * DigitsToInt(SubSeq(chars, 1, Len(chars) - 1)) + DigitOf(chars[Len(chars)])

Unsigned(chars) == IF chars # <<>> /\ Head(chars) = "-" THEN Tail(chars) ELSE chars

Sign(chars) == IF chars # <<>> /\ Head(chars) = "-" THEN -1 ELSE 1

IsInt(chars) == AllDigits(Unsigned(chars))

DotAt(chars) == {i \in 1..Len(chars) : chars[i] = "."}

IsFloat(chars) ==
    LET u == Unsigned(chars)
    IN  \/ AllDigits(u)
        \/ /\ Cardinality(DotAt(u)) = 1
           /\ LET p == CHOOSE i \in DotAt(u) : TRUE
              IN  /\ AllDigits(SubSeq(u, 1, p - 1))
                  /\ AllDigits(SubSeq(u, p + 1, Len(u)))

\* A float is kept as mantissa and number of decimals, without trailing
\* zero decimals, so that equal floats are equal values.
RECURSIVE NormalFloat(_, _)
NormalFloat(m, d) ==
    IF d > 0 /\ m % 10 = 0 THEN NormalFloat(m \div 10, d - 1) ELSE FloatValue(m, d)

ParseFloat(chars) ==
    LET u == Unsigned(chars)
    IN  IF AllDigits(u) THEN FloatValue(Sign(chars) * DigitsToInt(u), 0)
        ELSE LET p == CHOOSE i \in DotAt(u) : TRUE
                 frac == SubSeq(u, p + 1, Len(u))
             IN  NormalFloat(Sign(chars) * DigitsToInt(SubSeq(u, 1, p - 1) \o frac),
                             Len(frac))

Field(chars, from, to) == DigitsToInt(SubSeq(chars, from, to))

\* YYYY-MM-DD
IsDate(chars) ==
    /\ Len(chars) = 10
    /\ chars[5] = "-" /\ chars[8] = "-"
    /\ \A i \in {1, 2, 3, 4, 6, 7, 9, 10} : IsDigit(chars[i])
    /\ Field(chars, 1, 4) \in 1..9999
    /\ Field(chars, 6, 7) \in 1..12
    /\ Field(chars, 9, 10) \in 1..31

\* HH:MM:SS
IsTime(chars) ==
    /\ Len(chars) = 8
    /\ chars[3] = ":" /\ chars[6] = ":"
    /\ \A i \in {1, 2, 4, 5, 7, 8} : IsDigit(chars[i])
    /\ Field(chars, 1, 2) \in 0..23
    /\ Field(chars, 4, 5) \in 0..59
    /\ Field(chars, 7, 8) \in 0..59

\* YYYY-MM-DDTHH:MM:SS, or with a space between date and time
IsDateTime(chars) ==
    /\ Len(chars) = 19
    /\ chars[11] \in {"T", " "}
    /\ IsDate(SubSeq(chars, 1, 10))
    /\ IsTime(SubSeq(chars, 12, 19))

IsNull(v) == v.k = "NoneType" \/ v.s = <<>>

Parses(type, chars) ==
    CASE type = "bool" -> lower(chars) \in TrueTokens \cup FalseTokens
      [] type = "int" -> IsInt(chars)
      [] type = "float" -> IsFloat(chars)
      [] type = "date" -> IsDate(chars)
      [] type = "datetime" -> IsDateTime(chars)
      [] type = "time" -> IsTime(chars)
      [] OTHER -> TRUE

Parse(type, chars) ==
    CASE type = "bool" -> BoolValue(IF lower(chars) \in TrueTokens THEN 1 ELSE 0)
      [] type = "int" -> IntValue(Sign(chars) * DigitsToInt(Unsigned(chars)))
      [] type = "float" -> ParseFloat(chars)
      [] type = "date" ->
            DateValue(Field(chars, 1, 4), Field(chars, 6, 7), Field(chars, 9, 10))
      [] type = "datetime" ->
            DateTimeValue(Field(chars, 1, 4), Field(chars, 6, 7), Field(chars, 9, 10),
                          Field(chars, 12, 13), Field(chars, 15, 16), Field(chars, 18, 19))
      [] type = "time" ->
            TimeValue(Field(chars, 1, 2), Field(chars, 4, 5), Field(chars, 7, 8))
      [] OTHER -> StrValue(chars)

Cascade == <<"bool", "int", "float", "date", "datetime", "time", "str">>

Fits(type, l) == \A i \in 1..Len(l) : IsNull(l[i]) \/ Parses(type, l[i].s)

normalize_column_type(l) ==
    IF \A i \in 1..Len(l) : IsNull(l[i])
    THEN <<NullType, [i \in 1..Len(l) |-> NoneValue]>>
    ELSE LET first == CHOOSE j \in 1..Len(Cascade) :
                         /\ Fits(Cascade[j], l)
                         /\ \A h \in 1..(j - 1) : ~Fits(Cascade[h], l)
             type == Cascade[first]
         IN  <<type, [i \in 1..Len(l) |->
                        IF IsNull(l[i]) THEN NoneValue ELSE Parse(type, l[i].s)]>>

\* ------------------------------------------------------------------ Column

\* Column.__init__(self, index, name, l, normal_type=InvalidType): the
\* object constructed.
\* Column.__init__ as its docstring words it: None, not InvalidType, stands
\* for "no type supplied".
Mut_Column(index, name, l, normal_type) ==
    LET inferred == normalize_column_type(l)
        t == IF normal_type # NullType THEN normal_type ELSE inferred[1]
        data == IF normal_type # NullType THEN l ELSE inferred[2]
    IN  [index |-> index, name |-> name, type |-> t, data |-> data]

Column(index, name, l, normal_type) ==
    LET inferred == normalize_column_type(l)
        t == IF normal_type # InvalidType THEN normal_type ELSE inferred[1]
        data == IF normal_type # InvalidType THEN l ELSE inferred[2]
    IN  [index |-> index, name |-> name, type |-> t, data |-> data]

\* ------------------------------------------------------------------ Table

Ids == 1..Len(heap)

Called(op, col, input) == [op |-> op, col |-> col, input |-> input]

\* Table._reindex_columns: c.index = i for i, c in enumerate(self), in order.
RECURSIVE reindex_from(_, _, _)
reindex_from(h, t, i) ==
    IF i > Len(t) THEN h
    ELSE reindex_from([h EXCEPT ![t[i]].index = i - 1], t, i + 1)

_reindex_columns(h, t) == reindex_from(h, t, 1)

\* list.insert(self, i, x): a negative i counts from the end, and i is
\* clamped to 0..len(self).
list_insert(t, i, x) ==
    LET j == IF i < 0 THEN i + Len(t) ELSE i
        k == IF j < 0 THEN 0 ELSE IF j > Len(t) THEN Len(t) ELSE j
    IN  SubSeq(t, 1, k) \o <<x>> \o SubSeq(t, k + 1, Len(t))

\* Column inherits list.__eq__: two Columns are == when their values are.
ColumnEq(h, c, d) == c = d \/ ListEq(h[c].data, h[d].data)

\* list.remove(self, x) removes the first item that is == x.
Matches(h, t, x) == {i \in 1..Len(t) : ColumnEq(h, t[i], x)}

FirstMatch(h, t, x) == CHOOSE i \in Matches(h, t, x) : \A j \in Matches(h, t, x) : i <= j

list_remove(h, t, x) ==
    LET k == FirstMatch(h, t, x)
    IN  SubSeq(t, 1, k - 1) \o SubSeq(t, k + 1, Len(t))

\* Column(index, name, l, normal_type), called by the user of the module.
new_column(index, name, l, normal_type) ==
    /\ Len(heap) < MaxObjs
    /\ heap' = Append(heap, Column(index, name, l, normal_type))
    /\ call' = Called("Column", Len(heap) + 1, <<index, name, l, normal_type>>)
    /\ raised' = ""
    /\ written' = <<>>
    /\ UNCHANGED <<table, reader>>

\* append with the index taken after the length has grown, not len - 1.
Mut_append(column) ==
    /\ column \in Ids
    /\ Len(table) < MaxCols
    /\ table' = Append(table, column)
    /\ heap' = [heap EXCEPT ![column].index = Len(table')]
    /\ call' = Called("append", column, <<>>)
    /\ raised' = ""
    /\ written' = <<>>
    /\ UNCHANGED reader

append(column) ==
    /\ column \in Ids
    /\ Len(table) < MaxCols
    /\ table' = Append(table, column)
    /\ heap' = [heap EXCEPT ![column].index = Len(table') - 1]
    /\ call' = Called("append", column, <<>>)
    /\ raised' = ""
    /\ written' = <<>>
    /\ UNCHANGED reader

insert(i, column) ==
    /\ column \in Ids
    /\ Len(table) < MaxCols
    /\ table' = list_insert(table, i, column)
    /\ heap' = _reindex_columns(heap, table')
    /\ call' = Called("insert", column, <<>>)
    /\ raised' = ""
    /\ written' = <<>>
    /\ UNCHANGED reader

extend(columns) ==
    /\ \A j \in 1..Len(columns) : columns[j] \in Ids
    /\ Len(table) + Len(columns) <= MaxCols
    /\ table' = table \o columns
    /\ heap' = _reindex_columns(heap, table')
    /\ call' = Called("extend", 0, <<>>)
    /\ raised' = ""
    /\ written' = <<>>
    /\ UNCHANGED reader

remove(column) ==
    /\ column \in Ids
    /\ call' = Called("remove", column, <<>>)
    /\ IF Matches(heap, table, column) = {}
       THEN /\ raised' = "ValueError"
            /\ UNCHANGED <<heap, table>>
       ELSE /\ table' = list_remove(heap, table, column)
            /\ heap' = _reindex_columns(heap, table')
            /\ raised' = ""
    /\ written' = <<>>
    /\ UNCHANGED reader

\* sort that reorders the columns instead of raising.
Mut_sort ==
    /\ table' = [i \in 1..Len(table) |-> table[Len(table) + 1 - i]]
    /\ heap' = _reindex_columns(heap, table')
    /\ call' = Called("sort", 0, <<>>)
    /\ raised' = ""
    /\ written' = <<>>
    /\ UNCHANGED reader

sort ==
    /\ call' = Called("sort", 0, <<>>)
    /\ raised' = "NotImplementedError"
    /\ written' = <<>>
    /\ UNCHANGED <<heap, table, reader>>

reverse ==
    /\ call' = Called("reverse", 0, <<>>)
    /\ raised' = "NotImplementedError"
    /\ written' = <<>>
    /\ UNCHANGED <<heap, table, reader>>

\* ------------------------------------------------------------------ from_csv

\* for i, d in enumerate(row): data_columns[i].append(d.strip()), from the
\* i-th value of the row on. data_columns is a list: an index past its end
\* raises IndexError, which `except KeyError` does not catch.
\* The accumulation without d.strip().
RECURSIVE Mut_fill_row(_, _, _)
Mut_fill_row(data_columns, row, i) ==
    IF i > Len(row) THEN [err |-> "", cols |-> data_columns]
    ELSE IF i > Len(data_columns) THEN [err |-> "IndexError", cols |-> data_columns]
    ELSE Mut_fill_row([data_columns EXCEPT ![i] = Append(@, StrValue(row[i]))],
                      row, i + 1)

RECURSIVE fill_row(_, _, _)
fill_row(data_columns, row, i) ==
    IF i > Len(row) THEN [err |-> "", cols |-> data_columns]
    ELSE IF i > Len(data_columns) THEN [err |-> "IndexError", cols |-> data_columns]
    ELSE fill_row([data_columns EXCEPT ![i] = Append(@, StrValue(strip(row[i])))],
                  row, i + 1)

\* for row in reader: ..., from the r-th row on; `read` counts the rows
\* taken from the reader, the one that raised included.
RECURSIVE fill_rows(_, _, _)
fill_rows(data_columns, rows, r) ==
    IF r > Len(rows) THEN [err |-> "", cols |-> data_columns, read |-> Len(rows)]
    ELSE LET res == fill_row(data_columns, rows[r], 1)
         IN  IF res.err # "" THEN [err |-> res.err, cols |-> res.cols, read |-> r]
             ELSE fill_rows(res.cols, rows, r + 1)

\* The Columns of Table.from_csv: Column(i, headers[i], c) for each
\* accumulated list c.
heavy_columns(headers, data_columns) ==
    [i \in 1..Len(data_columns) |-> Column(i - 1, headers[i], data_columns[i], InvalidType)]

from_csv ==
    /\ call' = Called("from_csv", 0, reader)
    /\ written' = <<>>
    /\ IF reader = <<>>
       THEN /\ raised' = "StopIteration"
            /\ UNCHANGED <<heap, table, reader>>
       ELSE LET headers == Head(reader)
                rows == Tail(reader)
                res == fill_rows([c \in 1..Len(headers) |-> <<>>], rows, 1)
                columns == heavy_columns(headers, res.cols)
            IN  /\ Len(heap) + Len(headers) <= MaxObjs
                /\ reader' = SubSeq(rows, res.read + 1, Len(rows))
                /\ IF res.err # ""
                   THEN /\ raised' = res.err
                        /\ UNCHANGED <<heap, table>>
                   ELSE /\ raised' = ""
                        /\ heap' = heap \o columns
                        /\ table' = [i \in 1..Len(columns) |-> Len(heap) + i]

\* ------------------------------------------------------------------ to_csv

\* The stringification without the test for None: str(None).
Mut_out_column(c) ==
    IF c.type \in TemporalTypes
    THEN [r \in 1..Len(c.data) |->
            IF HasIsoformat(c.data[r]) THEN isoformat(c.data[r])
            ELSE StrValue(<<"N", "o", "n", "e">>)]
    ELSE c.data

\* The list to_csv appends to out_columns for Column c.
out_column(c) ==
    IF c.type \in TemporalTypes
    THEN [r \in 1..Len(c.data) |->
            IF c.data[r] # NoneValue THEN isoformat(c.data[r]) ELSE NoneValue]
    ELSE c.data

\* v.isoformat() raises AttributeError on a value that has no such method.
out_column_raises(c) ==
    /\ c.type \in TemporalTypes
    /\ \E r \in 1..Len(c.data) : c.data[r] # NoneValue /\ ~HasIsoformat(c.data[r])

Min(S) == CHOOSE x \in S : \A y \in S : x <= y

\* zip(*out_columns): as many tuples as the shortest list has items, none
\* for no list at all.
zip(out_columns) ==
    LET n == IF out_columns = <<>> THEN 0
             ELSE Min({Len(out_columns[j]) : j \in 1..Len(out_columns)})
    IN  [r \in 1..n |-> [j \in 1..Len(out_columns) |-> out_columns[j][r]]]

to_csv ==
    /\ call' = Called("to_csv", 0, <<>>)
    /\ IF \E j \in 1..Len(table) : out_column_raises(heap[table[j]])
       THEN /\ raised' = "AttributeError"
            /\ written' = <<>>
       ELSE LET out_columns == [j \in 1..Len(table) |-> out_column(heap[table[j]])]
                rows == zip(out_columns)
                header == [j \in 1..Len(table) |-> StrValue(heap[table[j]].name)]
            IN  /\ raised' = ""
                /\ written' = <<header>> \o rows
    /\ UNCHANGED <<heap, table, reader>>

\* ------------------------------------------------------------------ the Table's mutations

\* Table(): the empty Table, beside a CSV file not read yet.
Constructed(file) ==
    /\ heap = <<>>
    /\ table = <<>>
    /\ reader = file
    /\ call = Called("Table", 0, <<>>)
    /\ raised = ""
    /\ written = <<>>

a == <<"a">>

b == <<"b">>

\* The files a Table is read from before it is mutated (the last one has
\* more columns than MaxObjs allows as it stands).
TableFiles ==
    { <<>>,
      << <<a, b>>, << <<"7">>, <<"x">> >> >>,
      << <<a, b, a>>, << <<"8">>, <<"8">>, <<"8">> >> >> }

\* The Columns the caller constructs to put into the Table: equal values
\* under different names (the file's columns hold other values).
TableColumnArgs ==
    { [index |-> 0, name |-> a, l |-> <<StrValue(<<"7">>)>>, type |-> InvalidType],
      [index |-> 1, name |-> b, l |-> <<IntValue(7)>>, type |-> "int"] }

IdLists == {<<>>} \cup {<<c>> : c \in Ids} \cup {<<c, d>> : c \in Ids, d \in Ids}

InitTable == \E file \in TableFiles : Constructed(file)

NextTable ==
    \/ from_csv
    \/ \E args \in TableColumnArgs : new_column(args.index, args.name, args.l, args.type)
    \/ \E c \in Ids : append(c)
    \/ \E c \in Ids : \E i \in (0 - Len(table) - 1)..(Len(table) + 1) : insert(i, c)
    \/ \E columns \in IdLists : extend(columns)
    \/ \E c \in Ids : remove(c)
    \/ sort
    \/ reverse

SpecTable == InitTable /\ [][NextTable]_vars

Occurrences(c) == {i \in 1..Len(table) : table[i] = c}

InTable(c) == Occurrences(c) # {}

NoAlias == \A c \in Ids : Cardinality(Occurrences(c)) <= 1

IndexIsPosition == \A i \in 1..Len(table) : heap[table[i]].index = i - 1

\* C1: after any sequence of append, insert, extend and remove calls on an
\* empty Table or one returned by from_csv, with any columns (a column
\* already in the Table included), every Column of the Table has index
\* equal to its zero-based position.
C1_IndexInvariant == IndexIsPosition

\* What the code keeps instead: a Column's index is the position of its
\* last occurrence in the Table.
IndexIsLastPosition ==
    \A c \in Ids : InTable(c) =>
        heap[c].index = (CHOOSE i \in Occurrences(c) : \A j \in Occurrences(c) : j <= i) - 1

\* C3: sort() and reverse() always raise NotImplementedError, and leave the
\* Table's column order and every column's index as they were.
C3_SortReverseRaise ==
    [][call'.op \in {"sort", "reverse"} =>
          /\ raised' = "NotImplementedError"
          /\ table' = table
          /\ heap' = heap]_vars

C3_Witness ==
    /\ call.op = "sort"
    /\ raised = "NotImplementedError"
    /\ Len(table) >= 2
    /\ heap[table[1]].data # heap[table[2]].data

\* C9: append(column) on a Table of n columns puts the column at position
\* n, sets its index to n and leaves the order and the index of every other
\* column as they were; so if every index was the column's position before
\* and the column was not in the Table, every index is the position after.
C9_AppendFrame ==
    [][call'.op = "append" =>
          LET c == call'.col
              n == Len(table)
          IN  /\ table' = Append(table, c)
              /\ heap'[c].index = n
              /\ Len(heap') = Len(heap)
              /\ \A d \in Ids \ {c} : heap'[d] = heap[d]
              /\ (IndexIsPosition /\ ~InTable(c)) => IndexIsPosition']_vars

C9_Witness ==
    /\ call.op = "append"
    /\ Len(table) >= 2
    /\ NoAlias
    /\ IndexIsPosition
    /\ heap[call.col].name # heap[table[1]].name

\* C10: remove(c) removes the very column passed: when c is in the Table,
\* the Table afterwards holds exactly its other columns in their previous
\* order; when c is not in the Table the call fails and the Table and all
\* indexes are as they were.
C10_RemoveThatColumn ==
    [][call'.op = "remove" =>
          LET c == call'.col
          IN  IF Cardinality(Occurrences(c)) = 1
              THEN /\ raised' = ""
                   /\ table' = SelectSeq(table, LAMBDA d : d # c)
                   /\ \A d \in Ids : heap'[d].name = heap[d].name
                                     /\ heap'[d].type = heap[d].type
              ELSE InTable(c) \/ (/\ raised' = "ValueError"
                                  /\ table' = table
                                  /\ heap' = heap)]_vars

\* ------------------------------------------------------------------ import and export

\* The most data rows of a CSV file.
MaxRows == 2

Headers == {<<>>, <<a>>, <<a, b>>, <<b, b>>}

\* Values of ragged files, one of them with white space around it.
RaggedTokens == {<<"7">>, <<" ", "x", "\t">>}

\* Values of each kind the cascade tells apart, for one-column files.
RichTokens ==
    { <<>>, <<" ">>, <<"7">>, <<"-", "1", ".", "5", "0">>, <<"T">>, <<"x", " ", "y", " ">>,
      <<"2", "0", "0", "1", "-", "0", "2", "-", "0", "3">>,
      <<"0", "4", ":", "0", "5", ":", "0", "6">> }

RowsOf(n, tokens) == UNION {[1..k -> tokens] : k \in 0..n}

FilesOf(headers, rows) == {<<headers>> \o data : data \in UNION {[1..m -> rows] : m \in 0..MaxRows}}

\* The empty file; files whose rows have up to one value more than the
\* header has names; one-column files over RichTokens.
CsvFiles ==
    {<<>>}
    \cup UNION {FilesOf(h, RowsOf(Len(h) + 1, RaggedTokens)) : h \in Headers}
    \cup FilesOf(<<a>>, [1..1 -> RichTokens])

InitCsv == \E file \in CsvFiles : Constructed(file)

NextCsv ==
    \/ from_csv
    \/ to_csv

SpecCsv == InitCsv /\ [][NextCsv]_vars

\* The last call was from_csv on a file with a header row.
Imported == call.op = "from_csv" /\ call.input # <<>>

FileHeaders == Head(call.input)

FileRows == Tail(call.input)

Returned == raised = ""

\* Column i of the file as the specification describes it: value i of
\* each data row, stripped, in row order.
RawColumn(i) == [r \in 1..Len(FileRows) |-> StrValue(strip(FileRows[r][i]))]

Max(S) == CHOOSE x \in S : \A y \in S : y <= x

\* C2: a data row with more values than the header has names raises no
\* error; its values past the header's length are dropped and its first
\* values go to the columns (header [a,b], row [1,2,3]: a=[1], b=[2]).
C2_LongRowTruncated ==
    (/\ Imported
     /\ \A r \in 1..Len(FileRows) : Len(FileRows[r]) >= Len(FileHeaders)
     /\ \E r \in 1..Len(FileRows) : Len(FileRows[r]) > Len(FileHeaders))
    => /\ Returned
       /\ Len(table) = Len(FileHeaders)
       /\ \A i \in 1..Len(table) :
            heap[table[i]].data = normalize_column_type(RawColumn(i))[2]

\* C4: whenever from_csv returns a Table, all its Columns have the same
\* length, the number of data rows read.
C4_RowCount ==
    (Imported /\ Returned)
    => \A i \in 1..Len(table) : Len(heap[table[i]].data) = Len(FileRows)

Rectangular == \A r \in 1..Len(FileRows) : Len(FileRows[r]) = Len(FileHeaders)

\* C5: for a header of n names and m data rows of exactly n values each,
\* from_csv returns a Table of n Columns; Column i has index i and name
\* header[i] and is built from the raw list of the stripped i-th values of
\* the rows, in row order.
C5_RectangularImport ==
    (Imported /\ Rectangular)
    => /\ Returned
       /\ Len(table) = Len(FileHeaders)
       /\ NoAlias
       /\ \A i \in 1..Len(table) :
            LET c == heap[table[i]]
                built == normalize_column_type(RawColumn(i))
            IN  /\ c.index = i - 1
                /\ c.name = FileHeaders[i]
                /\ c.type = built[1]
                /\ c.data = built[2]

C5_Witness ==
    /\ Imported /\ Rectangular /\ Returned
    /\ Len(table) = 2
    /\ Len(FileRows) = 2
    /\ FileRows[1][1] # strip(FileRows[1][1])
    /\ FileRows[1][2] # FileRows[1][1]
    /\ FileRows[2] # FileRows[1]
    /\ heap[table[1]].type # heap[table[2]].type

Exported == call.op = "to_csv" /\ Returned

ColumnLengths == {Len(heap[table[j]].data) : j \in 1..Len(table)}

\* C6: the rows handed to the writer are one header row of the k column
\* names in column order, then exactly R data rows, R the Table's column
\* length; data row r holds the r-th value of each column in column order.
\* No data row is left out or added, also when the columns' lengths differ
\* or the Table is empty.
C6_RowLayout ==
    Exported
    => /\ Len(written) = 1 + (IF table = <<>> THEN 0 ELSE Max(ColumnLengths))
       /\ written[1] = [j \in 1..Len(table) |-> StrValue(heap[table[j]].name)]
       /\ \A r \in 1..(Len(written) - 1) :
            /\ Len(written[r + 1]) = Len(table)
            /\ \A j \in 1..Len(table) :
                 r <= Len(heap[table[j]].data)
                 => written[r + 1][j] = out_column(heap[table[j]])[r]

\* ------------------------------------------------------------------ Columns of a given type

None7 == <<StrValue(<<"7">>), NoneValue>>

\* The arguments Columns are constructed with: without a type (raw
\* strings, inferred), and with each kind of type, the null-only type and a
\* type the values do not have included.
ExportColumnArgs ==
    { [index |-> 0, name |-> a, l |-> <<StrValue(<<"7">>)>>, type |-> InvalidType],
      [index |-> 0, name |-> b, l |-> <<StrValue(<<>>), StrValue(<<" ", "x">>)>>,
       type |-> InvalidType],
      [index |-> 1, name |-> b, l |-> <<DateValue(2001, 2, 3), NoneValue>>, type |-> "date"],
      [index |-> 0, name |-> b, l |-> <<NoneValue, DateTimeValue(1999, 12, 31, 23, 59, 58)>>,
       type |-> "datetime"],
      [index |-> 2, name |-> a, l |-> <<TimeValue(4, 5, 6)>>, type |-> "time"],
      [index |-> 0, name |-> a, l |-> None7, type |-> NullType],
      [index |-> 0, name |-> a, l |-> <<BoolValue(1), NoneValue>>, type |-> "bool"],
      [index |-> 0, name |-> b, l |-> <<StrValue(<<"x">>)>>, type |-> "date"] }

InitExport == Constructed(<<>>)

NextExport ==
    \/ \E args \in ExportColumnArgs : new_column(args.index, args.name, args.l, args.type)
    \/ \E c \in Ids : append(c)
    \/ to_csv

SpecExport == InitExport /\ [][NextExport]_vars

\* C7: to_csv emits each non-null value of a Column of type Date, DateTime
\* or Time as its ISO-8601 string and each null value of such a Column as
\* the null marker; the values of a Column of any other type go to the
\* writer as they are.
C7_ValueConversion ==
    Exported
    => \A r \in 1..(Len(written) - 1) : \A j \in 1..Len(table) :
         LET c == heap[table[j]]
             v == c.data[r]
             out == written[r + 1][j]
         IN  IF c.type \in TemporalTypes
             THEN IF v = NoneValue THEN out = NoneValue ELSE out = isoformat(v)
             ELSE out = v

C7_Witness ==
    /\ Exported
    /\ Len(written) = 3
    /\ \E j \in 1..Len(table) :
         /\ heap[table[j]].type = "date"
         /\ written[2][j] = StrValue(<<"2", "0", "0", "1", "-", "0", "2", "-", "0", "3">>)
         /\ written[3][j] = NoneValue
    /\ \E j \in 1..Len(table) :
         /\ heap[table[j]].type = NullType
         /\ written[2][j] = StrValue(<<"7">>)

=============================================================================
